---------------------------- MODULE Spec2Model ----------------------------
(***************************************************************************)
(* State-machine model of te2_sdk/te2.py: the Terraform Enterprise 2       *)
(* client (TE2Client), the run orchestrator (TE2WorkspaceRuns) and the     *)
(* variable store (TE2WorkspaceVariables).                                 *)
(*                                                                         *)
(* One caller drives one orchestrator instance (the code is synchronous    *)
(* and single-threaded).  The remote system is the environment: every      *)
(* response it gives (HTTP status, run listing, run status, workspace      *)
(* listing) is chosen nondeterministically; the workspace's variables are  *)
(* remote state that the client's create requests change.                  *)
(*                                                                         *)
(* Python's `is` / `is not` on strings compares object identity.  Two      *)
(* strings of different value are never the same object; two strings of    *)
(* equal value may or may not be (interning is an implementation detail:   *)
(* a literal of this module is, a string parsed from a JSON body is not).  *)
(* Each such comparison therefore takes a boolean `same`, drawn            *)
(* nondeterministically where the operand comes from outside the module.   *)
(***************************************************************************)
EXTENDS Integers, Sequences, FiniteSets, TLC

\* ------------------------------------------------------------------ bounds
MaxRuns == 2            \* longest run listing the remote returns
MaxPasses == 2          \* listing passes of the discard loop that are explored
MaxTimeoutCount == 3    \* largest timeout_count a direct caller passes
MaxVars == 2            \* most variables the remote workspace holds
MaxWorkspaces == 2      \* longest workspace listing the remote returns

\* ------------------------------------------------------- program constants
DefaultTimeoutCount == 120      \* _get_run_results(timeout_count=120)
SleepSeconds == 10              \* time.sleep(10)

\* --------------------------------------------------------------- universes
Statuses == {"pending", "planning", "planned", "applying", "applied",
             "errored", "discarded"}
RunIds == 1..MaxRuns
NewRunId == MaxRuns + 1         \* the id the remote gives a created run
RequestTypes == {"plan", "apply", "destroy"}
ExcNone == "none"

CONFIRM_DESTROY == <<"C","O","N","F","I","R","M","_","D","E","S","T","R","O","Y">>
KeyUnderscored == <<"a", "_", "b">>
KeySpaced == <<"a", " ", "b">>
\* the keys and categories a caller passes to the upsert
UpsertKeys == {CONFIRM_DESTROY, KeyUnderscored, KeySpaced}
Categories == {"env", "terraform", "other"}
\* the keys of the variables a workspace holds before the client touches it
RemoteKeys == {CONFIRM_DESTROY, KeyUnderscored}

WorkspaceNames == {"ws", "other"}
workspace_name == "ws"          \* the name the orchestrator was built with
\* the names a caller of get_workspace_id asks for
LookupNames == WorkspaceNames \cup {"w"}

NoRun == [id |-> 0, status |-> "none", has_changes |-> FALSE]

\* a workspace variable as the remote lists it
NoVar == [id |-> 0, key |-> <<>>]
Var(i, k) == [id |-> i, key |-> k]

\* return values, in one shape
NoneVal == [kind |-> "none", run |-> NoRun]          \* nothing returned (yet)
EmptyDict == [kind |-> "empty", run |-> NoRun]       \* {}
TrueVal == [kind |-> "true", run |-> NoRun]          \* True
StrVal == [kind |-> "str", run |-> NoRun]            \* a message string
RunVal(r) == [kind |-> "run", run |-> r]             \* request['data']
IdVal(i) == [kind |-> "id", run |-> [NoRun EXCEPT !.id = i]]  \* obj["id"]

\* a request the client issued: method and path, the id in the path (0 if
\* none), whether the remote answered 2xx, and for a run listing the number
\* of runs it listed in state planned
Req(r, a, o, n) == [req |-> r, arg |-> a, ok |-> o, planned |-> n]
Sleep == Req("SLEEP", SleepSeconds, TRUE, 0)

VARIABLES
    op,                 \* the public operation the caller invoked
    pc,                 \* position in the code
    log,                \* requests issued and sleeps taken by this call, in order
    outcome,            \* "none" | "returned" | "raised"
    raised,             \* the last exception raised during this call
    result,             \* the value returned to the caller
    \* discard_all_pending_runs
    runs_to_discard, run_list, idx,
    \* _get_run_results
    run_id, request_type, timeout_count, x, request,
    \* request_run / _request_run_request
    destroy, results, in_try, job_status,
    rrr_run_id, path,
    \* create_or_update_workspace_variable
    key, category, existing_variable,
    \* delete_all_variables
    variables, position,
    \* TE2Client.get_workspace_id
    ws_name, workspaces,
    \* remote state
    remote_vars         \* the workspace's variables, in listing order

ctl == <<op, pc, log, outcome, raised, result>>
dapr == <<runs_to_discard, run_list, idx>>
grr == <<run_id, request_type, timeout_count, x, request>>
rr == <<destroy, results, in_try, job_status, rrr_run_id, path>>
upsert == <<key, category, existing_variable>>
store == <<variables, position, ws_name, workspaces>>
vars == <<ctl, dapr, grr, rr, upsert, store, remote_vars>>

\* ----------------------------------------------------------------- helpers
SeqsUpTo(S, n) == UNION {[1..k -> S] : k \in 0..n}

PendingStates == {"pending", "planning", "planned"}
NonTerminal == {"planning", "applying"}

NumPlanned(l) == Cardinality({i \in DOMAIN l : l[i] = "planned"})
NoPending(l) == \A i \in DOMAIN l : l[i] \notin PendingStates

\* the variables a workspace may hold when the client is constructed: at most
\* one per key, with ids in listing order
InitialVars ==
    {[i \in DOMAIN ks |-> Var(i, ks[i])] :
        ks \in {s \in SeqsUpTo(RemoteKeys, MaxVars) :
                    \A i, j \in DOMAIN s : i /= j => s[i] /= s[j]}}

\* the id the remote gives a created variable: the smallest one not in use
FreshVarId(vs) ==
    CHOOSE i \in 1..(Len(vs) + 1) :
        /\ \A j \in DOMAIN vs : vs[j].id /= i
        /\ \A k \in 1..(i - 1) : \E j \in DOMAIN vs : vs[j].id = k

\* the has-changes values the remote may report with a status: none is known
\* before the plan has finished, and only a plan with changes is applied
HasChanges(st) ==
    IF st \in {"pending", "planning"} THEN {FALSE}
    ELSE IF st \in {"applying", "applied"} THEN {TRUE}
         ELSE BOOLEAN

\* str(request.status_code).startswith("2")
startswith2(ok) == ok

\* `a is not lit`: true when the values differ; when they are equal, true
\* iff the two strings are not the same object
is_not(a, lit, same) == a /= lit \/ ~same

\* key.replace(' ', '_')
replace(s) == [i \in DOMAIN s |-> IF s[i] = " " THEN "_" ELSE s[i]]

Count(r) == Cardinality({i \in DOMAIN log : log[i].req = r})
polls == Count("GET /runs/id")
sleeps == Count("SLEEP")
discards == Count("POST /runs/id/actions/discard")
listings == Count("GET /workspaces/id/runs")

\* ------------------------------------------------------- exception unwinding
\* Where an exception raised at the current position goes.  Inside
\* request_run the try statement decides (lines 191-213): a SyntaxError
\* raised in the try body enters the except clause, every other exception
\* goes straight to the finally clause.  Elsewhere it reaches the caller.
Raise(e) ==
    /\ raised' = e
    /\ IF op = "request_run"
       THEN /\ pc' = IF e = "SyntaxError" /\ in_try THEN "rr_except" ELSE "rr_finally"
            /\ UNCHANGED <<outcome, result>>
       ELSE /\ pc' = "done"
            /\ outcome' = "raised"
            /\ result' = NoneVal

\* ---------------------------------------------------------------- the calls
Idle == pc = "idle"

\* locals of a fresh call
Fresh ==
    /\ log' = <<>>
    /\ outcome' = "none"
    /\ raised' = ExcNone
    /\ result' = NoneVal
    /\ runs_to_discard' = FALSE
    /\ run_list' = <<>>
    /\ idx' = 0
    /\ x' = 0
    /\ request' = NoRun
    /\ results' = NoneVal
    /\ in_try' = FALSE
    /\ job_status' = "none"
    /\ path' = ""
    /\ existing_variable' = NoVar
    /\ variables' = <<>>
    /\ position' = 0
    /\ workspaces' = <<>>
    /\ UNCHANGED remote_vars

Init ==
    /\ op = "none"
    /\ pc = "idle"
    /\ log = <<>>
    /\ outcome = "none"
    /\ raised = ExcNone
    /\ result = NoneVal
    /\ runs_to_discard = FALSE
    /\ run_list = <<>>
    /\ idx = 0
    /\ run_id = 0
    /\ request_type = "plan"
    /\ timeout_count = 0
    /\ x = 0
    /\ request = NoRun
    /\ destroy = FALSE
    /\ results = NoneVal
    /\ in_try = FALSE
    /\ job_status = "none"
    /\ rrr_run_id = 0
    /\ path = ""
    /\ key = <<>>
    /\ category = "env"
    /\ existing_variable = NoVar
    /\ variables = <<>>
    /\ position = 0
    /\ ws_name = ""
    /\ workspaces = <<>>
    /\ remote_vars \in InitialVars


\* the caller invokes public operation o with these arguments
Call(o, p, rid, rt, tc, d) ==
    /\ Fresh
    /\ op' = o
    /\ pc' = p
    /\ run_id' = rid
    /\ request_type' = rt
    /\ timeout_count' = tc
    /\ destroy' = d
    /\ rrr_run_id' = 0
    /\ key' = <<>>
    /\ category' = "env"
    /\ ws_name' = ""

\* the caller invokes an operation of the variable store or of the client
CallStore(o, p, k, c, n) ==
    /\ Fresh
    /\ op' = o
    /\ pc' = p
    /\ key' = k
    /\ category' = c
    /\ ws_name' = n
    /\ run_id' = 0
    /\ request_type' = "plan"
    /\ timeout_count' = 0
    /\ destroy' = FALSE
    /\ rrr_run_id' = 0

call_create_or_update_workspace_variable ==
    /\ Idle
    /\ \E k \in UpsertKeys, c \in Categories :
        CallStore("create_or_update_workspace_variable", "upsert_validate", k, c, "")

call_delete_all_variables ==
    /\ Idle
    /\ CallStore("delete_all_variables", "dav_list", <<>>, "env", "")

call_get_workspace_id ==
    /\ Idle
    /\ \E n \in LookupNames :
        CallStore("get_workspace_id", "gwi_list", <<>>, "env", n)

\* the caller has the outcome of its call; the call's locals are gone, the
\* instance and the remote state remain
caller_returns ==
    /\ pc = "done"
    /\ Call("none", "idle", 0, "plan", 0, FALSE)

call_discard_all_pending_runs ==
    /\ Idle
    /\ Call("discard_all_pending_runs", "dapr_enter", 0, "plan", 0, FALSE)

call_discard_plan_by_id ==
    /\ Idle
    /\ \E rid \in RunIds :
        Call("discard_plan_by_id", "dpbi_post", rid, "plan", 0, FALSE)

call_get_run_results ==
    /\ Idle
    /\ \E rid \in RunIds, rt \in RequestTypes, tc \in 0..MaxTimeoutCount :
        Call("_get_run_results", "grr_enter", rid, rt, tc, FALSE)

call_request_run_request ==
    /\ Idle
    /\ \E rid \in {0} \cup RunIds, d \in BOOLEAN :
        /\ Fresh
        /\ op' = "_request_run_request"
        /\ pc' = "rrr_enter"
        /\ rrr_run_id' = rid
        /\ destroy' = d
        /\ run_id' = 0
        /\ request_type' = "plan"
        /\ timeout_count' = 0
        /\ key' = <<>>
        /\ category' = "env"
        /\ ws_name' = ""

call_request_run ==
    /\ Idle
    /\ \E rt \in RequestTypes, d \in BOOLEAN :
        Call("request_run", "rr_enter", 0, rt, 0, d)

\* ------------------------------------------- discard_all_pending_runs
\* line 140: runs_to_discard = True
dapr_enter ==
    /\ pc = "dapr_enter"
    /\ runs_to_discard' = TRUE
    /\ pc' = "dapr_while"
    /\ UNCHANGED <<op, log, outcome, raised, result, run_list, idx, grr, rr,
                   upsert, remote_vars>>
    /\ UNCHANGED store

\* lines 141, 149: the loop condition holds; fetch the workspace's run list.
\* A non-2xx answer carries no 'data' member: the subscript raises KeyError.
dapr_while_fetch ==
    /\ pc = "dapr_while"
    /\ runs_to_discard
    /\ listings < MaxPasses
    /\ \E ok \in BOOLEAN :
        IF ok
        THEN \E l \in SeqsUpTo(Statuses, MaxRuns) :
                /\ log' = Append(log, Req("GET /workspaces/id/runs", 0, TRUE,
                                          NumPlanned(l)))
                /\ run_list' = l
                /\ idx' = 1
                /\ pc' = "dapr_for"
                /\ UNCHANGED <<outcome, raised, result>>
        ELSE /\ log' = Append(log, Req("GET /workspaces/id/runs", 0, FALSE, 0))
             /\ Raise("KeyError")
             /\ UNCHANGED <<run_list, idx>>
    /\ UNCHANGED <<op, runs_to_discard, grr, rr, upsert, remote_vars>>
    /\ UNCHANGED store

\* line 158: self.discard_plan(run["id"]).  TE2WorkspaceRuns has no attribute
\* discard_plan (the method defined at line 163 is discard_plan_by_id), so
\* the attribute lookup raises AttributeError and no request is issued.
discard_plan(id) ==
    /\ Raise("AttributeError")
    /\ UNCHANGED log

\* lines 151-160: the body of the for loop, for the next run of the list
dapr_for_body ==
    /\ pc = "dapr_for"
    /\ idx <= Len(run_list)
    /\ idx' = idx + 1
    /\ LET run_status == run_list[idx] IN
        IF run_status = "planned" \/ run_status = "pending" \/ run_status = "planning"
        THEN /\ IF run_status = "planned"
                THEN discard_plan(idx)
                ELSE UNCHANGED <<pc, log, outcome, raised, result>>
             /\ UNCHANGED runs_to_discard
        ELSE /\ runs_to_discard' = FALSE
             /\ UNCHANGED <<pc, log, outcome, raised, result>>
    /\ UNCHANGED <<op, run_list, grr, rr, upsert, remote_vars>>
    /\ UNCHANGED store

\* dapr_for_end with a time.sleep(10) at the end of each listing pass
dapr_for_end_sleeping ==
    /\ pc = "dapr_for"
    /\ idx > Len(run_list)
    /\ log' = Append(log, Sleep)
    /\ pc' = "dapr_while"
    /\ UNCHANGED <<op, outcome, raised, result, dapr, grr, rr, upsert, store,
                   remote_vars>>

\* line 151: the run list is exhausted; back to the loop condition
dapr_for_end ==
    /\ pc = "dapr_for"
    /\ idx > Len(run_list)
    /\ pc' = "dapr_while"
    /\ UNCHANGED <<op, log, outcome, raised, result, dapr, grr, rr, upsert,
                   remote_vars>>
    /\ UNCHANGED store

\* lines 141, 161: the loop condition fails; return True
dapr_return ==
    /\ pc = "dapr_while"
    /\ ~runs_to_discard
    /\ run_list' = <<>>
    /\ idx' = 0
    /\ IF op = "discard_all_pending_runs"
       THEN /\ pc' = "done"
            /\ outcome' = "returned"
            /\ result' = TrueVal
            /\ UNCHANGED path
       ELSE /\ pc' = "rrr_destroy"          \* line 74
            /\ path' = "/runs"
            /\ UNCHANGED <<outcome, result>>
    /\ UNCHANGED <<op, log, raised, runs_to_discard, grr, destroy, results,
                   in_try, job_status, rrr_run_id, upsert, remote_vars>>
    /\ UNCHANGED store

\* ------------------------------------------------- discard_plan_by_id
\* lines 165-173
discard_plan_by_id ==
    /\ pc = "dpbi_post"
    /\ \E ok \in BOOLEAN :
        /\ log' = Append(log, Req("POST /runs/id/actions/discard", run_id, ok, 0))
        /\ IF startswith2(ok)
           THEN /\ pc' = "done"
                /\ outcome' = "returned"
                /\ result' = StrVal
                /\ UNCHANGED raised
           ELSE Raise("KeyError")
    /\ UNCHANGED <<op, dapr, grr, rr, upsert, remote_vars>>
    /\ UNCHANGED store

\* --------------------------------------------------- _get_run_results
\* lines 96-97: request_type is validated by identity against two literals
grr_enter ==
    /\ pc = "grr_enter"
    /\ \E same \in BOOLEAN :
        IF is_not(request_type, "plan", same) /\ is_not(request_type, "apply", same)
        THEN Raise("KeyError")
        ELSE /\ pc' = "grr_for"
             /\ UNCHANGED <<outcome, raised, result>>
    /\ x' = 0
    /\ UNCHANGED <<op, log, dapr, run_id, request_type, timeout_count, request,
                   rr, upsert, remote_vars>>
    /\ UNCHANGED store

\* lines 200-210: the status message printed for the terminal record
JobStatus(r) ==
    IF r.status = "errored" THEN "Failed"
    ELSE IF r.status = "planned"
         THEN (IF r.has_changes THEN "Changes Detected" ELSE "No Changes Detected")
         ELSE IF r.status = "applied" THEN "Apply Successful"
              ELSE "none"

\* what _get_run_results returns to: the caller, or request_run, which
\* assigns results (line 198), prints the status message (lines 200-210) and
\* enters the finally clause
grr_return(data) ==
    IF op = "_get_run_results"
    THEN /\ pc' = "done"
         /\ outcome' = "returned"
         /\ result' = RunVal(data)
         /\ UNCHANGED <<results, job_status>>
    ELSE /\ pc' = "rr_finally"
         /\ results' = RunVal(data)
         /\ job_status' = JobStatus(data)
         /\ UNCHANGED <<outcome, result>>

\* lines 99-104: one poll.  A non-2xx answer carries no 'data' member.
grr_poll ==
    /\ pc = "grr_for"
    /\ x < timeout_count
    /\ \E ok \in BOOLEAN :
        /\ log' = Append(log, Req("GET /runs/id", run_id, ok, 0))
        /\ IF ok
           THEN \E st \in Statuses, same \in BOOLEAN : \E hc \in HasChanges(st) :
                LET data == [id |-> run_id, status |-> st, has_changes |-> hc] IN
                IF is_not(st, "planning", same) /\ is_not(st, "applying", same)
                THEN /\ grr_return(data)
                     /\ request' = NoRun
                     /\ x' = 0
                     /\ UNCHANGED raised
                ELSE /\ request' = data
                     /\ pc' = "grr_sleep"
                     /\ UNCHANGED <<x, outcome, raised, result, results, job_status>>
           ELSE /\ request' = NoRun
                /\ Raise("KeyError")
                /\ UNCHANGED <<x, results, job_status>>
    /\ UNCHANGED <<op, dapr, run_id, request_type, timeout_count, destroy,
                   in_try, rrr_run_id, path, upsert, remote_vars>>
    /\ UNCHANGED store

\* grr_sleep with the time.sleep(10) of line 107 left out
grr_sleep_skipped ==
    /\ pc = "grr_sleep"
    /\ x' = x + 1
    /\ pc' = "grr_for"
    /\ UNCHANGED <<op, log, outcome, raised, result, dapr, run_id, request_type,
                   timeout_count, request, rr, upsert, remote_vars>>
    /\ UNCHANGED store

\* lines 106-107: report progress, sleep, next iteration
grr_sleep ==
    /\ pc = "grr_sleep"
    /\ log' = Append(log, Sleep)
    /\ x' = x + 1
    /\ pc' = "grr_for"
    /\ UNCHANGED <<op, outcome, raised, result, dapr, run_id, request_type,
                   timeout_count, request, rr, upsert, remote_vars>>
    /\ UNCHANGED store

\* line 109: the range is exhausted
grr_timeout ==
    /\ pc = "grr_for"
    /\ x >= timeout_count
    /\ Raise("TimeoutError")
    /\ UNCHANGED <<op, log, dapr, grr, rr, upsert, remote_vars>>
    /\ UNCHANGED store

\* -------------------------------------------------- TE2Client lookups
\* get_workspace_id with the comparison of line 19 left out: the id of the
\* first workspace listed
get_workspace_id_first(ok, listing, name) ==
    IF ~startswith2(ok) THEN 0
    ELSE IF listing /= <<>> THEN 1 ELSE 0

\* lines 23-28: the listing, or KeyError (0) on a non-2xx answer;
\* lines 17-21: the id of the first workspace of that name, or KeyError (0).
\* A workspace's id is its position in the listing.
get_workspace_id(ok, listing, name) ==
    IF ~startswith2(ok) THEN 0
    ELSE IF \E i \in DOMAIN listing : listing[i] = name
         THEN CHOOSE i \in DOMAIN listing :
                /\ listing[i] = name
                /\ \A j \in 1..(i - 1) : listing[j] /= name
         ELSE 0

\* lines 17-28 called by the user of the client: the listing is fetched and
\* searched for ws_name
gwi_list ==
    /\ pc = "gwi_list"
    /\ \E ok \in BOOLEAN :
       \E listing \in (IF ok THEN SeqsUpTo(WorkspaceNames, MaxWorkspaces) ELSE {<<>>}) :
        /\ log' = Append(log, Req("GET /organizations/org/workspaces", 0, ok, 0))
        /\ workspaces' = listing
        /\ IF get_workspace_id(ok, listing, ws_name) = 0
           THEN Raise("KeyError")
           ELSE /\ pc' = "done"
                /\ outcome' = "returned"
                /\ result' = IdVal(get_workspace_id(ok, listing, ws_name))
                /\ UNCHANGED raised
    /\ UNCHANGED <<op, dapr, grr, rr, upsert, variables, position, ws_name,
                   remote_vars>>

\* -------------------------------------------------------- request_run
\* lines 189-192: results = {}; enter the try body
request_run ==
    /\ pc = "rr_enter"
    /\ results' = EmptyDict
    /\ in_try' = TRUE
    /\ pc' = "rrr_enter"
    /\ UNCHANGED <<op, log, outcome, raised, result, dapr, grr, destroy,
                   job_status, rrr_run_id, path, upsert, remote_vars>>
    /\ UNCHANGED store

\* rrr_enter with the test of line 69 left out: it always discards and plans
rrr_enter_always_discards ==
    /\ pc = "rrr_enter"
    /\ pc' = "dapr_enter"
    /\ UNCHANGED <<op, log, outcome, raised, result, dapr, grr, rr, upsert, store,
                   remote_vars>>

\* lines 69-74: with a run id, the apply path; without, discard and plan
rrr_enter ==
    /\ pc = "rrr_enter"
    /\ IF rrr_run_id /= 0
       THEN /\ path' = "/runs/id/actions/apply"
            /\ pc' = "rrr_destroy"
       ELSE /\ pc' = "dapr_enter"
            /\ UNCHANGED path
    /\ UNCHANGED <<op, log, outcome, raised, result, dapr, grr, destroy,
                   results, in_try, job_status, rrr_run_id, upsert, remote_vars>>
    /\ UNCHANGED store

\* rrr_destroy with lines 76-78 left out: the run is posted without the flag
rrr_destroy_skipped ==
    /\ pc = "rrr_destroy"
    /\ pc' = "rrr_post"
    /\ UNCHANGED <<op, log, outcome, raised, result, dapr, grr, rr, upsert, store,
                   remote_vars>>

\* lines 76-78: for a destroy, construct the variable store (lines 217-220
\* resolve the workspace id again) and upsert CONFIRM_DESTROY
rrr_destroy ==
    /\ pc = "rrr_destroy"
    /\ IF destroy
       THEN \E ok \in BOOLEAN, listing \in SeqsUpTo(WorkspaceNames, MaxWorkspaces) :
            /\ log' = Append(log, Req("GET /organizations/org/workspaces", 0, ok, 0))
            /\ IF get_workspace_id(ok, listing, workspace_name) = 0
               THEN /\ Raise("KeyError")
                    /\ UNCHANGED <<key, category>>
               ELSE /\ key' = CONFIRM_DESTROY
                    /\ category' = "env"
                    /\ pc' = "upsert_validate"
                    /\ UNCHANGED <<outcome, raised, result>>
       ELSE /\ pc' = "rrr_post"
            /\ UNCHANGED <<log, outcome, raised, result, key, category>>
    /\ UNCHANGED <<op, dapr, grr, rr, existing_variable, remote_vars>>
    /\ UNCHANGED store

\* line 83: the data of a 2xx answer to the run request: the run created
\* (no run id given) or the run whose apply was requested
SubmittedRun(rid) ==
    IF rid = 0
    THEN [id |-> NewRunId, status |-> "pending", has_changes |-> FALSE]
    ELSE [id |-> rid, status |-> "applying", has_changes |-> TRUE]

\* rrr_post with the status check of line 82 left out
rrr_post_unchecked ==
    /\ pc = "rrr_post"
    /\ \E ok \in BOOLEAN :
        log' = Append(log, Req("POST " \o path, rrr_run_id, ok, 0))
    /\ run_id' = NewRunId
    /\ in_try' = FALSE
    /\ pc' = "rr_else"
    /\ UNCHANGED <<op, outcome, raised, result, dapr, request_type,
                   timeout_count, x, request, destroy, results, job_status,
                   rrr_run_id, path, upsert, remote_vars>>
    /\ UNCHANGED store

\* lines 80-86: post the run request
rrr_post ==
    /\ pc = "rrr_post"
    /\ \E ok \in BOOLEAN :
        /\ log' = Append(log, Req("POST " \o path, rrr_run_id, ok, 0))
        /\ IF startswith2(ok)
           THEN IF op = "request_run"
                THEN /\ run_id' = NewRunId           \* request['id']
                     /\ in_try' = FALSE              \* the try body is left
                     /\ pc' = "rr_else"
                     /\ UNCHANGED <<outcome, raised, result>>
                ELSE /\ pc' = "done"
                     /\ outcome' = "returned"
                     /\ result' = RunVal(SubmittedRun(rrr_run_id))
                     /\ UNCHANGED <<run_id, in_try, raised>>
           ELSE /\ Raise("SyntaxError")
                /\ UNCHANGED <<run_id, in_try>>
    /\ UNCHANGED <<op, dapr, request_type, timeout_count, x, request, destroy,
                   results, job_status, rrr_run_id, path, upsert, remote_vars>>
    /\ UNCHANGED store

\* lines 193-194: except SyntaxError
rr_except ==
    /\ pc = "rr_except"
    /\ results' = EmptyDict
    /\ in_try' = FALSE
    /\ pc' = "rr_finally"
    /\ UNCHANGED <<op, log, outcome, raised, result, dapr, grr, destroy,
                   job_status, rrr_run_id, path, upsert, remote_vars>>
    /\ UNCHANGED store

\* lines 196-198: the else clause calls _get_run_results with the default
\* timeout_count
rr_else ==
    /\ pc = "rr_else"
    /\ timeout_count' = DefaultTimeoutCount
    /\ pc' = "grr_enter"
    /\ UNCHANGED <<op, log, outcome, raised, result, dapr, run_id, request_type,
                   x, request, rr, upsert, remote_vars>>
    /\ UNCHANGED store

\* lines 212-213: finally: return results.  A return in a finally clause
\* discards whatever exception is in flight.
rr_finally ==
    /\ pc = "rr_finally"
    /\ outcome' = "returned"
    /\ result' = results
    /\ pc' = "done"
    /\ UNCHANGED <<op, log, raised, dapr, grr, rr, upsert, remote_vars>>
    /\ UNCHANGED store

\* ------------------------------ create_or_update_workspace_variable
\* line 321: the upsert returns True, to its caller or to line 80 of
\* _request_run_request
upsert_return ==
    IF op = "create_or_update_workspace_variable"
    THEN /\ pc' = "done"
         /\ outcome' = "returned"
         /\ result' = TrueVal
         /\ UNCHANGED raised
    ELSE /\ pc' = "rrr_post"
         /\ UNCHANGED <<outcome, raised, result>>

\* upsert_validate with lines 300-301 left out
upsert_validate_unchecked ==
    /\ pc = "upsert_validate"
    /\ pc' = "gvbn_first"
    /\ UNCHANGED <<op, log, outcome, raised, result, dapr, grr, rr, upsert, store,
                   remote_vars>>

\* lines 300-305: category is validated by identity against two literals;
\* the literal "env" of line 78 is the literal "env" of line 300, a string
\* of another caller may or may not be the same object as the literal it
\* equals.  The defaults of sensitive and hcl pass lines 302-305.
upsert_validate ==
    /\ pc = "upsert_validate"
    /\ \E same \in (IF op = "create_or_update_workspace_variable"
                    THEN BOOLEAN ELSE {TRUE}) :
        IF is_not(category, "env", same) /\ is_not(category, "terraform", same)
        THEN Raise("SyntaxError")
        ELSE /\ pc' = "gvbn_first"
             /\ UNCHANGED <<outcome, raised, result>>
    /\ UNCHANGED <<op, log, dapr, grr, rr, upsert, remote_vars>>
    /\ UNCHANGED store

\* lines 252-254 (get_workspace_variables, 283-294): the first listing of
\* get_variable_by_name(key).  A KeyError (non-2xx listing, line 294; empty
\* listing, line 258) is caught at line 313 and leads to the create.
gvbn_first ==
    /\ pc = "gvbn_first"
    /\ \E ok \in BOOLEAN :
        /\ log' = Append(log, Req("GET /vars", 0, ok, 0))
        /\ pc' = IF startswith2(ok) /\ remote_vars /= <<>>
                 THEN "gvbn_second" ELSE "upsert_create"
    /\ UNCHANGED <<op, outcome, raised, result, dapr, grr, rr, upsert, remote_vars>>
    /\ UNCHANGED store

\* lines 255-258: the second listing, searched for the key as passed
gvbn_second ==
    /\ pc = "gvbn_second"
    /\ \E ok \in BOOLEAN :
        /\ log' = Append(log, Req("GET /vars", 0, ok, 0))
        /\ IF startswith2(ok) /\ \E i \in DOMAIN remote_vars : remote_vars[i].key = key
           THEN /\ existing_variable' =
                    remote_vars[CHOOSE i \in DOMAIN remote_vars :
                        /\ remote_vars[i].key = key
                        /\ \A j \in 1..(i - 1) : remote_vars[j].key /= key]
                /\ pc' = "upsert_update"
           ELSE /\ pc' = "upsert_create"
                /\ UNCHANGED existing_variable
    /\ UNCHANGED <<op, outcome, raised, result, dapr, grr, rr, key, category,
                   remote_vars>>
    /\ UNCHANGED store

\* lines 314-315, 320-323: create the variable under the normalised key.
\* The remote refuses once the workspace holds MaxVars variables.
upsert_create ==
    /\ pc = "upsert_create"
    /\ \E ok \in (IF Len(remote_vars) < MaxVars THEN BOOLEAN ELSE {FALSE}) :
        /\ log' = Append(log, Req("POST /vars", 0, ok, 0))
        /\ IF startswith2(ok)
           THEN /\ remote_vars' =
                    Append(remote_vars, Var(FreshVarId(remote_vars), replace(key)))
                /\ upsert_return
           ELSE /\ Raise("SyntaxError")
                /\ UNCHANGED remote_vars
    /\ UNCHANGED <<op, dapr, grr, rr, upsert>>
    /\ UNCHANGED store

\* lines 317-318: existing_variable is the variable's record, not its id:
\* "/vars/" + existing_variable raises TypeError and no request is issued
upsert_update ==
    /\ pc = "upsert_update"
    /\ Raise("TypeError")
    /\ UNCHANGED <<op, log, dapr, grr, rr, upsert, remote_vars>>
    /\ UNCHANGED store

\* ------------------------------------------------ delete_all_variables
\* line 277 (get_workspace_variables, 283-294): the listing to delete
dav_list ==
    /\ pc = "dav_list"
    /\ \E ok \in BOOLEAN :
        /\ log' = Append(log, Req("GET /vars", 0, ok, 0))
        /\ IF startswith2(ok)
           THEN /\ variables' = remote_vars
                /\ position' = 1
                /\ pc' = "dav_delete"
                /\ UNCHANGED <<outcome, raised, result>>
           ELSE /\ Raise("KeyError")
                /\ UNCHANGED <<variables, position>>
    /\ UNCHANGED <<op, dapr, grr, rr, upsert, ws_name, workspaces, remote_vars>>

\* what the remote holds after it deleted the variable of this id
Deleted(vs, id) == SelectSeq(vs, LAMBDA v : v.id /= id)

\* dav_delete with the KeyError of line 274 swallowed: the loop goes on to
\* the next variable
dav_delete_continue ==
    /\ pc = "dav_delete"
    /\ IF position > Len(variables)
       THEN /\ pc' = "done"
            /\ outcome' = "returned"
            /\ result' = NoneVal
            /\ UNCHANGED <<log, raised, position, remote_vars>>
       ELSE \E ok \in BOOLEAN :
            /\ log' = Append(log, Req("DELETE /vars/id", variables[position].id, ok, 0))
            /\ remote_vars' = IF startswith2(ok)
                              THEN Deleted(remote_vars, variables[position].id)
                              ELSE remote_vars
            /\ position' = position + 1
            /\ UNCHANGED <<pc, outcome, raised, result>>
    /\ UNCHANGED <<op, dapr, grr, rr, upsert, variables, ws_name, workspaces>>

\* lines 280-281 (delete_variable_by_id, 269-274): the next variable of the
\* listing is deleted; a non-2xx answer raises KeyError out of the loop
dav_delete ==
    /\ pc = "dav_delete"
    /\ IF position > Len(variables)
       THEN /\ pc' = "done"
            /\ outcome' = "returned"
            /\ result' = NoneVal
            /\ UNCHANGED <<log, raised, position, remote_vars>>
       ELSE \E ok \in BOOLEAN :
            /\ log' = Append(log, Req("DELETE /vars/id", variables[position].id, ok, 0))
            /\ IF startswith2(ok)
               THEN /\ remote_vars' = Deleted(remote_vars, variables[position].id)
                    /\ position' = position + 1
                    /\ UNCHANGED <<pc, outcome, raised, result>>
               ELSE /\ Raise("KeyError")
                    /\ UNCHANGED <<position, remote_vars>>
    /\ UNCHANGED <<op, dapr, grr, rr, upsert, variables, ws_name, workspaces>>

\* ------------------------------------------------------ specification
Next ==
    \/ caller_returns
    \/ call_discard_all_pending_runs
    \/ call_discard_plan_by_id
    \/ call_get_run_results
    \/ call_request_run
    \/ call_request_run_request
    \/ dapr_enter
    \/ dapr_while_fetch
    \/ dapr_for_body
    \/ dapr_for_end
    \/ dapr_return
    \/ discard_plan_by_id
    \/ grr_enter
    \/ grr_poll
    \/ grr_sleep
    \/ grr_timeout
    \/ request_run
    \/ rrr_enter
    \/ rrr_destroy
    \/ rrr_post
    \/ rr_except
    \/ rr_else
    \/ rr_finally
    \/ upsert_validate
    \/ gvbn_first
    \/ gvbn_second
    \/ upsert_create
    \/ upsert_update

Spec == Init /\ [][Next]_vars

\* The variable store (TE2WorkspaceVariables) and the workspace lookup
\* (TE2Client) called on their own, by a caller that holds a constructed
\* store.
NextVars ==
    \/ caller_returns
    \/ call_create_or_update_workspace_variable
    \/ call_delete_all_variables
    \/ call_get_workspace_id
    \/ upsert_validate
    \/ gvbn_first
    \/ gvbn_second
    \/ upsert_create
    \/ upsert_update
    \/ dav_list
    \/ dav_delete
    \/ gwi_list

SpecVars == Init /\ [][NextVars]_vars

\* ------------------------------------------------------------- claims
InDiscardLoop == pc \in {"dapr_while", "dapr_for"}

\* the position in the log of the latest run listing (0 if none)
LastListing ==
    IF listings = 0 THEN 0
    ELSE CHOOSE i \in DOMAIN log :
            /\ log[i].req = "GET /workspaces/id/runs"
            /\ \A j \in DOMAIN log : j > i => log[j].req /= "GET /workspaces/id/runs"

\* discard requests issued for run i since the latest listing
DiscardsInPass(i) ==
    Cardinality({j \in DOMAIN log :
        /\ j > LastListing
        /\ log[j].req = "POST /runs/id/actions/discard"
        /\ log[j].arg = i})

\* _get_run_results has returned a record (to its caller or to request_run)
GrrReturned ==
    \/ op = "_get_run_results" /\ pc = "done" /\ outcome = "returned"
    \/ op = "request_run" /\ results.kind = "run"

ReturnedRun == IF op = "request_run" THEN results.run ELSE result.run

\* the create-run request of this call was answered with a non-2xx status
CreateRunFailed == \E i \in DOMAIN log : log[i].req = "POST /runs" /\ ~log[i].ok

FirstIndex(r) ==
    IF Count(r) = 0 THEN 0
    ELSE CHOOSE i \in DOMAIN log :
            log[i].req = r /\ \A j \in 1..(i - 1) : log[j].req /= r

\* C1 (as claimed): discard_all_pending_runs is about to return (its loop
\* condition is false) only when the listing pass just completed contained no
\* run in state pending, planning or planned.
C1_ReturnsOnlyAfterQuietPass ==
    (pc = "dapr_while" /\ ~runs_to_discard) => NoPending(run_list)

\* C2 (as claimed): once a listing pass has returned no run in state pending,
\* planning or planned -- an empty listing included -- the loop condition is
\* false, so discard_all_pending_runs returns instead of listing again.
C2_QuietPassEndsLoop ==
    (pc = "dapr_while" /\ listings >= 1 /\ NoPending(run_list))
        => ~runs_to_discard

\* C3 (as claimed): in a listing pass, once the loop body has run for a run,
\* exactly one discard request was issued for it if it was listed as planned
\* and none if it was listed as pending or planning (or terminal).
C3_OneDiscardPerPlannedRun ==
    InDiscardLoop \/ raised = "AttributeError" =>
        \A i \in DOMAIN run_list :
            i < idx => DiscardsInPass(i) = IF run_list[i] = "planned" THEN 1 ELSE 0

\* C4 (as claimed): the record _get_run_results returns never has status
\* planning or applying.
C4_ReturnsOnlyTerminal ==
    GrrReturned => ReturnedRun.status \notin NonTerminal

\* C5: when _get_run_results returns a record on its n-th poll it has slept
\* exactly n-1 times (none if the first poll is terminal), and it goes on to
\* sleep only after a poll whose status was planning or applying.
C5_SleepsBetweenPolls ==
    /\ GrrReturned => sleeps = polls - 1
    /\ pc = "grr_sleep" => request.status \in NonTerminal /\ sleeps = polls - 1

C5_Witness ==
    /\ op = "_get_run_results"
    /\ pc = "done"
    /\ outcome = "returned"
    /\ polls = 3
    /\ sleeps = 2

\* C6 (as claimed): _get_run_results never fetches the status more than
\* timeout_count times, and when the timeout_count-th fetch still shows
\* planning or applying the call ends with TimeoutError.
C6_TimeoutOnLastPoll ==
    op = "_get_run_results" =>
        /\ polls <= timeout_count
        /\ (/\ pc = "done"
            /\ timeout_count > 0
            /\ polls = timeout_count
            /\ (IF outcome = "returned" THEN result.run.status ELSE request.status)
                    \in NonTerminal)
            => outcome = "raised" /\ raised = "TimeoutError"

\* C7: when the create-run request is answered with a non-2xx status,
\* request_run issues no status poll, raises nothing to its caller and
\* returns the empty result.
C7_FailedSubmissionIsEmpty ==
    (op = "request_run" /\ CreateRunFailed) =>
        /\ polls = 0
        /\ outcome /= "raised"
        /\ pc \in {"rr_except", "rr_finally", "done"}
        /\ pc = "done" => outcome = "returned" /\ result = EmptyDict

C7_Witness ==
    /\ op = "request_run"
    /\ pc = "done"
    /\ CreateRunFailed
    /\ result = EmptyDict
    /\ destroy
    /\ Count("POST /vars") = 1

\* C8 (as claimed): when the create-run request was not refused, an exception
\* the code raises on purpose during request_run (TimeoutError from the poll
\* bound, SyntaxError from a failed upsert of the destroy flag, KeyError from
\* a failed workspace or run lookup) reaches the caller as a failure.
C8_OtherFailuresPropagate ==
    (/\ op = "request_run"
     /\ pc = "done"
     /\ raised \in {"TimeoutError", "SyntaxError", "KeyError"}
     /\ ~CreateRunFailed
     /\ \A i \in DOMAIN log : log[i].req = "GET /workspaces/id/runs" => log[i].ok)
        => outcome = "raised"

\* C9 (as claimed): a request_run with destroy=true whose first listing shows
\* two planned runs, and whose requests the remote all accepts, has issued
\* two discards, then one write of the destroy flag, then one create-run,
\* then at least one status poll, and returns a run record.
C9_DestroyWithStaleRuns ==
    (/\ op = "request_run"
     /\ destroy
     /\ pc = "done"
     /\ listings >= 1
     /\ log[FirstIndex("GET /workspaces/id/runs")].planned = 2
     /\ \A i \in DOMAIN log : log[i].ok)
    => /\ discards = 2
       /\ Count("POST /vars") + Count("PATCH /vars/id") = 1
       /\ Count("POST /runs") = 1
       /\ polls >= 1
       /\ \A i \in DOMAIN log :
            log[i].req = "POST /runs/id/actions/discard"
                => i < FirstIndex("POST /vars") + FirstIndex("PATCH /vars/id")
       /\ FirstIndex("POST /vars") + FirstIndex("PATCH /vars/id")
            < FirstIndex("POST /runs")
       /\ FirstIndex("POST /runs") < FirstIndex("GET /runs/id")
       /\ result.kind = "run"

\* C10 (as claimed): a request_run of a plan on a workspace that lists no run
\* in state pending, planning or planned (possibly no run at all) gets past
\* the discard loop after that listing; and when the remote reports the new
\* run planned without changes, the call has issued no discard, returns that
\* record and reports "No Changes Detected".
C10_PlanWithoutPendingRuns ==
    (op = "request_run" /\ request_type = "plan" /\ ~destroy) =>
        /\ (pc = "dapr_while" /\ listings >= 1 /\ NoPending(run_list))
                => ~runs_to_discard
        /\ (/\ pc = "done"
            /\ result.kind = "run"
            /\ result.run.status = "planned"
            /\ ~result.run.has_changes)
            => discards = 0 /\ job_status = "No Changes Detected"


\* the positions of request_run inside its call of _request_run_request
\* (lines 68-86 and what they call) and the two it comes back to: the else
\* clause on a return, the except clause on a SyntaxError
SubmitPcs == {"rrr_enter", "dapr_enter", "dapr_while", "dapr_for", "rrr_destroy",
              "upsert_validate", "gvbn_first", "gvbn_second", "upsert_create",
              "upsert_update", "rrr_post", "rr_else", "rr_except"}

\* _request_run_request is running or has just ended, called on its own or
\* by request_run
InSubmit ==
    \/ op = "_request_run_request"
    \/ op = "request_run" /\ pc \in SubmitPcs

RunPosts == {"POST /runs", "POST /runs/id/actions/apply"}
VarWrites == {"POST /vars", "PATCH /vars/id"}
VarRequests == VarWrites \cup {"GET /vars", "GET /organizations/org/workspaces"}

\* the positions in the log of the run requests and of the run listings
RunPostIndexes == {i \in DOMAIN log : log[i].req \in RunPosts}
ListingIndexes == {i \in DOMAIN log : log[i].req = "GET /workspaces/id/runs"}

\* C16 (as claimed): between any two consecutive run-listing fetches of the
\* discard loop the delay primitive is invoked.
C16_DelayBetweenListings ==
    \A i, j \in DOMAIN log :
        (/\ i < j
         /\ log[i].req = "GET /workspaces/id/runs"
         /\ log[j].req = "GET /workspaces/id/runs")
        => \E k \in (i + 1)..(j - 1) : log[k].req = "SLEEP"

\* C16 (amended): discard_all_pending_runs never invokes the delay primitive:
\* while its loop runs, and when it has returned, no sleep has been taken, so
\* consecutive run-listing fetches follow each other without any delay.
C16_NoDelayBetweenListings ==
    (InDiscardLoop \/ op = "discard_all_pending_runs") => sleeps = 0

C16_Witness ==
    /\ op = "discard_all_pending_runs"
    /\ pc = "done"
    /\ outcome = "returned"
    /\ listings = 2

\* C17: with no run id, _request_run_request begins with the run listing of
\* the discard loop, posts to the create-run path only after the last
\* listing, and never posts an apply; with a run id it issues no run listing
\* and no discard, never posts to the create-run path, and its one run
\* request is the apply of that run; a direct call that returns has posted
\* its run request.
C17_DiscardIffNoRunId ==
    InSubmit =>
        LET posts == RunPostIndexes
            lists == ListingIndexes
        IN
        /\ rrr_run_id = 0 =>
            /\ log /= <<>> => log[1].req = "GET /workspaces/id/runs"
            /\ \A p \in posts :
                    /\ log[p].req = "POST /runs"
                    /\ ~InDiscardLoop
                    /\ lists /= {}
                    /\ \A i \in lists : i < p
        /\ rrr_run_id /= 0 =>
            /\ lists = {}
            /\ discards = 0
            /\ ~InDiscardLoop
            /\ \A p \in posts :
                    /\ log[p].req = "POST /runs/id/actions/apply"
                    /\ log[p].arg = rrr_run_id
        /\ (op = "_request_run_request" /\ pc = "done" /\ outcome = "returned")
                => Cardinality(posts) = 1

C17_Witness ==
    /\ op = "_request_run_request"
    /\ rrr_run_id /= 0
    /\ pc = "done"
    /\ outcome = "returned"
    /\ Count("POST /runs/id/actions/apply") = 1
    /\ listings = 0

\* C18: with destroy=true the run request (create or apply) is posted only
\* after a write of the destroy flag that the remote accepted, and after a
\* refused write no run request is posted; with destroy=false no request of
\* the variable store is issued.
C18_NoDestroyWithoutFlag ==
    InSubmit =>
        IF destroy
        THEN LET posts == RunPostIndexes
                 writes == {q \in DOMAIN log : log[q].req \in VarWrites}
             IN
             /\ \A p \in posts : \E q \in writes : q < p /\ log[q].ok
             /\ (\E q \in writes : ~log[q].ok) => posts = {}
        ELSE \A q \in DOMAIN log : log[q].req \notin VarRequests

C18_Witness ==
    /\ op = "_request_run_request"
    /\ destroy
    /\ pc = "done"
    /\ outcome = "returned"
    /\ Count("POST /vars") = 1
    /\ RunPostIndexes /= {}

\* ------------------------------------------------- the variable store
Upserting == op = "create_or_update_workspace_variable"
AllAnswered2xx == \A i \in DOMAIN log : log[i].ok
NoDuplicateKeys(vs) == \A i, j \in DOMAIN vs : i /= j => vs[i].key /= vs[j].key

\* the variables the workspace held when the upsert looked its key up: what
\* it holds now, less the variable this call created
ListedAtLookup ==
    IF \E i \in DOMAIN log : log[i].req = "POST /vars" /\ log[i].ok
    THEN SubSeq(remote_vars, 1, Len(remote_vars) - 1)
    ELSE remote_vars

\* C11: an upsert that passed validation and whose requests were all
\* answered 2xx has issued exactly one write: a create when no variable of
\* its key was listed, an update addressed to the listed variable's id when
\* one was.
C11_ExactlyOneWrite ==
    (Upserting /\ pc = "done" /\ Count("GET /vars") >= 1 /\ AllAnswered2xx) =>
        LET before == ListedAtLookup
            listed == {i \in DOMAIN before : before[i].key = key}
        IN IF listed = {}
           THEN Count("POST /vars") = 1 /\ Count("PATCH /vars/id") = 0
           ELSE /\ Count("POST /vars") = 0
                /\ Count("PATCH /vars/id") = 1
                /\ \A i \in DOMAIN log : log[i].req = "PATCH /vars/id" =>
                        \E j \in listed : log[i].arg = before[j].id

\* C12: a step of an upsert whose requests were all answered 2xx, taken in a
\* workspace that holds at most one variable per key, leaves at most one
\* variable per key.
C12_OneVariablePerKey ==
    [][(/\ Upserting
        /\ \A i \in DOMAIN log' : log'[i].ok
        /\ NoDuplicateKeys(remote_vars))
       => NoDuplicateKeys(remote_vars')]_vars

\* C13: an upsert called with a category other than env and terraform
\* issues no request, leaves the remote variables as they are, and ends by
\* raising SyntaxError from the validation.
C13_BadCategoryRejectedFirst ==
    [][(op' = "create_or_update_workspace_variable"
            /\ category' \notin {"env", "terraform"})
       => /\ log' = <<>>
          /\ remote_vars' = remote_vars
          /\ pc' \in {"upsert_validate", "done"}
          /\ pc' = "done" => outcome' = "raised" /\ raised' = "SyntaxError"]_vars

C13_Witness ==
    /\ Upserting
    /\ category = "other"
    /\ pc = "done"
    /\ outcome = "raised"
    /\ raised = "SyntaxError"
    /\ log = <<>>

\* the delete requests of this call, in the order issued
Deletes == SelectSeq(log, LAMBDA r : r.req = "DELETE /vars/id")

\* C14: delete_all_variables deletes the variables of the listing it
\* fetched one by one in listing order; a refused delete is the last request
\* of the call, which then fails with KeyError with the variables before that
\* position deleted and the ones from it on still in place; a call that
\* returns has deleted them all, and a refused listing deletes nothing.
C14_PartialDeletion ==
    (op = "delete_all_variables" /\ pc \in {"dav_delete", "done"}) =>
        LET dels == Deletes
            n == Len(dels)
            m == Len(variables)
        IN
        /\ log[1].req = "GET /vars"
        /\ Len(log) = n + 1
        /\ n <= m
        /\ \A i \in 1..n : dels[i].arg = variables[i].id
        /\ \A i \in 1..(n - 1) : dels[i].ok
        /\ ~log[1].ok =>
            /\ n = 0
            /\ pc = "done" /\ outcome = "raised" /\ raised = "KeyError"
        /\ (n > 0 /\ ~dels[n].ok) =>
            /\ pc = "done" /\ outcome = "raised" /\ raised = "KeyError"
            /\ remote_vars = SubSeq(variables, n, m)
        /\ (log[1].ok /\ (n > 0 => dels[n].ok)) =>
            /\ remote_vars = SubSeq(variables, n + 1, m)
            /\ pc = "done" => outcome = "returned" /\ n = m

C14_Witness ==
    /\ op = "delete_all_variables"
    /\ pc = "done"
    /\ outcome = "raised"
    /\ raised = "KeyError"
    /\ Len(Deletes) = 2
    /\ Deletes[1].ok
    /\ ~Deletes[2].ok
    /\ Len(remote_vars) = 1

\* C15: get_workspace_id returns the id of a listed workspace whose name is
\* exactly the name asked for, and raises KeyError when the listing holds no
\* workspace of that name or was refused.
C15_ExactNameOrNotFound ==
    (op = "get_workspace_id" /\ pc = "done") =>
        /\ Len(log) = 1
        /\ log[1].req = "GET /organizations/org/workspaces"
        /\ IF log[1].ok /\ \E i \in DOMAIN workspaces : workspaces[i] = ws_name
           THEN /\ outcome = "returned"
                /\ result.kind = "id"
                /\ result.run.id \in DOMAIN workspaces
                /\ workspaces[result.run.id] = ws_name
           ELSE outcome = "raised" /\ raised = "KeyError"

C15_Witness ==
    /\ op = "get_workspace_id"
    /\ pc = "done"
    /\ outcome = "returned"
    /\ workspaces = <<"other", "ws">>
    /\ ws_name = "ws"
    /\ result = IdVal(2)

=============================================================================
